---------------------------- MODULE Spec2Model ----------------------------
(***************************************************************************)
(* Model of the KittenTTS Flask application (src/app.py).                  *)
(*                                                                         *)
(* A text is a sequence of characters; a character is a one-element string *)
(* (non-ASCII code points carry a mnemonic name).  The text helpers are    *)
(* operators; the request handlers, get_model and _synthesize_audio_safe   *)
(* are state machines over per-thread program counters.                    *)
(***************************************************************************)
EXTENDS Naturals, Integers, Sequences, FiniteSets, TLC

(***************************************************************************)
(* Bounds of the model.                                                    *)
(***************************************************************************)
\* longest text enumerated for _split_safe_chunks
MaxTextLen == 5
\* largest max_len enumerated for _split_safe_chunks
MaxChunkLen == 3
\* longest text enumerated for _sanitize_text_for_model
MaxSanLen == 3

(***************************************************************************)
(* Program constants.                                                      *)
(***************************************************************************)
MAX_TEXT_LEN == 1000
SAFE_CHUNK_LEN == 180

AVAILABLE_VOICES == {"Bella", "Jasper", "Luna", "Bruno", "Rosie", "Hugo", "Kiki", "Leo"}

(***************************************************************************)
(* Characters.                                                             *)
(***************************************************************************)
Letters ==
    {"a","b","c","d","e","f","g","h","i","j","k","l","m",
     "n","o","p","q","r","s","t","u","v","w","x","y","z",
     "A","B","C","D","E","F","G","H","I","J","K","L","M",
     "N","O","P","Q","R","S","T","U","V","W","X","Y","Z"}

Digits == {"0","1","2","3","4","5","6","7","8","9"}

\* the punctuation the character class of line 43 keeps
KeptPunctuation == {".", ",", "!", "?", ";", ":", "'", "\"", "(", ")", "-"}

\* the character class [A-Za-z0-9 .,!?;:'"()\-]
AllowedChars == Letters \cup Digits \cup {" "} \cup KeptPunctuation

\* ASCII characters of the model outside the class
OtherAscii == {"\n", "\t", "#", "%"}

AsciiChars == AllowedChars \cup OtherAscii

\* non-ASCII code points of the model: U+00E9, U+0301, U+4E2D, U+FB01,
\* U+00A0, U+FF05
NonAscii == {"E_ACUTE", "COMBINING_ACUTE", "CJK", "FI_LIGATURE", "NBSP", "FULLWIDTH_PERCENT"}

\* what \s, str.strip and str.split take for whitespace
IsSpace(c) == c \in {" ", "\n", "\t", "NBSP"}

\* the lookbehind class [.!?]
IsTerminator(c) == c \in {".", "!", "?"}

(***************************************************************************)
(* String helpers (the Python built-ins the code calls).                   *)
(***************************************************************************)
Drop == "<dropped>"

Compact(s) == SelectSeq(s, LAMBDA c : c # Drop)

\* the elements of a finite set of numbers, ascending
SortedSeq(S) ==
    [k \in 1..Cardinality(S) |-> CHOOSE x \in S : Cardinality({y \in S : y <= x}) = k]

\* str.strip()
Strip(s) ==
    IF \A i \in 1..Len(s) : IsSpace(s[i]) THEN << >>
    ELSE LET first == CHOOSE i \in 1..Len(s) :
                          ~IsSpace(s[i]) /\ \A j \in 1..(i-1) : IsSpace(s[j])
             last  == CHOOSE i \in 1..Len(s) :
                          ~IsSpace(s[i]) /\ \A j \in (i+1)..Len(s) : IsSpace(s[j])
         IN SubSeq(s, first, last)

\* re.sub(r"\s+", " ", s)
CollapseSpaces(s) ==
    Compact([i \in 1..Len(s) |->
               IF ~IsSpace(s[i]) THEN s[i]
               ELSE IF i = 1 \/ ~IsSpace(s[i-1]) THEN " " ELSE Drop])

\* str.split(): the maximal whitespace-free runs, in order
SplitWords(s) ==
    LET n      == Len(s)
        starts == SortedSeq({i \in 1..n : ~IsSpace(s[i]) /\ (i = 1 \/ IsSpace(s[i-1]))})
        ends   == SortedSeq({i \in 1..n : ~IsSpace(s[i]) /\ (i = n \/ IsSpace(s[i+1]))})
    IN [k \in 1..Len(starts) |-> SubSeq(s, starts[k], ends[k])]

(***************************************************************************)
(* _normalize_input_text, lines 34-36.                                     *)
(***************************************************************************)
normalize_input_text(text) == Strip(CollapseSpaces(text))

(***************************************************************************)
(* _sanitize_text_for_model, lines 39-45.                                  *)
(***************************************************************************)
\* unicodedata.normalize("NFKD", c) of one code point
NFKD(c) ==
    CASE c = "E_ACUTE"           -> <<"e", "COMBINING_ACUTE">>
      [] c = "FI_LIGATURE"       -> <<"f", "i">>
      [] c = "NBSP"              -> <<" ">>
      [] c = "FULLWIDTH_PERCENT" -> <<"%">>
      [] OTHER                   -> <<c>>

\* line 40: the decompositions concatenated (none is longer than 2)
NormalizeNFKD(text) ==
    Compact([j \in 1..(2 * Len(text)) |->
               LET d == NFKD(text[((j - 1) \div 2) + 1])
                   k == ((j - 1) % 2) + 1
               IN IF k <= Len(d) THEN d[k] ELSE Drop])

\* line 41: encode("ascii", "ignore").decode("ascii")
AsciiIgnore(s) == SelectSeq(s, LAMBDA c : c \in AsciiChars)

\* line 42
ReplaceNewlines(s) == [i \in 1..Len(s) |-> IF s[i] = "\n" THEN " " ELSE s[i]]

\* line 43
ReplaceDisallowed(s) == [i \in 1..Len(s) |-> IF s[i] \in AllowedChars THEN s[i] ELSE " "]

\* line 44
CollapseAndStrip(s) == Strip(CollapseSpaces(s))

sanitize_text_for_model_CollapseFirst(text) ==
    ReplaceDisallowed(CollapseAndStrip(ReplaceNewlines(AsciiIgnore(NormalizeNFKD(text)))))

sanitize_text_for_model(text) ==
    CollapseAndStrip(ReplaceDisallowed(ReplaceNewlines(AsciiIgnore(NormalizeNFKD(text)))))

(***************************************************************************)
(* _split_safe_chunks, lines 48-87.                                        *)
(***************************************************************************)
\* the indices the matches of (?<=[.!?])\s+ cover: the whitespace runs that
\* start right after a terminator
SeparatorIndices(text) ==
    {j \in 1..Len(text) :
        /\ IsSpace(text[j])
        /\ \E r \in 2..j : /\ IsTerminator(text[r-1])
                           /\ \A m \in r..j : IsSpace(text[m])}

\* line 52: re.split; empty pieces, which line 58 skips, are left out
SplitSentences(text) ==
    LET n      == Len(text)
        sep    == SeparatorIndices(text)
        starts == SortedSeq({i \in 1..n : i \notin sep /\ (i = 1 \/ (i-1) \in sep)})
        ends   == SortedSeq({i \in 1..n : i \notin sep /\ (i = n \/ (i+1) \in sep)})
    IN [k \in 1..Len(starts) |-> SubSeq(text, starts[k], ends[k])]

\* lines 66 and 77
Fits_OffByOne(candidate, max_len) == Len(candidate) <= max_len + 1

Fits(candidate, max_len) == Len(candidate) <= max_len

\* lines 69-70, 72-73, 80-81 and 84-85: append a non-empty buffer
Flush(chunks, buffer) == IF buffer # << >> THEN Append(chunks, buffer) ELSE chunks

\* lines 63-73: the word loop over one long sentence
RECURSIVE PackWords(_, _, _, _, _)
PackWords(words, i, temp, chunks, max_len) ==
    IF i > Len(words) THEN Flush(chunks, temp)
    ELSE LET word      == words[i]
             candidate == Strip(temp \o <<" ">> \o word)
         IN IF Fits(candidate, max_len)
            THEN PackWords(words, i + 1, candidate, chunks, max_len)
            ELSE PackWords(words, i + 1, word, Flush(chunks, temp), max_len)

\* lines 61-74: a sentence longer than max_len; `current` is left as it is
LongSentence_Truncated(sentence, chunks, max_len) ==
    Append(chunks, SubSeq(sentence, 1, max_len))

LongSentence(sentence, chunks, max_len) ==
    PackWords(SplitWords(sentence), 1, << >>, chunks, max_len)

\* lines 56-85: the sentence loop and the final flush
RECURSIVE PackSentences(_, _, _, _, _)
PackSentences(sentences, i, current, chunks, max_len) ==
    IF i > Len(sentences) THEN Flush(chunks, current)
    ELSE LET sentence == Strip(sentences[i])
         IN IF sentence = << >>
            THEN PackSentences(sentences, i + 1, current, chunks, max_len)
            ELSE IF Len(sentence) > max_len
            THEN PackSentences(sentences, i + 1, current,
                               LongSentence(sentence, chunks, max_len), max_len)
            ELSE LET candidate == Strip(current \o <<" ">> \o sentence)
                 IN IF Fits(candidate, max_len)
                    THEN PackSentences(sentences, i + 1, candidate, chunks, max_len)
                    ELSE PackSentences(sentences, i + 1, sentence,
                                       Flush(chunks, current), max_len)

split_safe_chunks(text, max_len) ==
    IF Len(text) <= max_len THEN <<text>>
    ELSE LET chunks == PackSentences(SplitSentences(text), 1, << >>, << >>, max_len)
         IN IF chunks # << >> THEN chunks ELSE <<SubSeq(text, 1, max_len)>>


(***************************************************************************)
(* Values of the handlers.                                                 *)
(***************************************************************************)
\* number of request-handling threads of the server
NumThreads == 2

Threads == 1..NumThreads

\* a Python float: NaN, or a number kept in hundredths
Float(h) == [nan |-> FALSE, h |-> h]
NaN == [nan |-> TRUE, h |-> 0]

\* Python's < and > on floats: every comparison with NaN is False
FloatLess(x, y) == ~x.nan /\ ~y.nan /\ x.h < y.h
FloatGreater(x, y) == ~x.nan /\ ~y.nan /\ x.h > y.h

\* what model.generate returns: None, or an array of samples
NoneAudio == [isNone |-> TRUE, samples |-> << >>]
Array(samples) == [isNone |-> FALSE, samples |-> samples]

\* the exception of a failed model.generate call is named by the number of
\* the call within its request; a ValueError carries its message and the
\* exception it was raised from
NoError == [msg |-> "", cause |-> 0]
ValueError(msg, cause) == [msg |-> msg, cause |-> cause]

UnsupportedMsg == "Text contains unsupported characters for this model."
CouldNotMsg == "Model could not synthesize this text. Try shorter text or English-only phrasing."

\* what _synthesize_audio_safe ended with
NoResult == [kind |-> "none", audio |-> NoneAudio, error |-> NoError]
Returned(audio) == [kind |-> "audio", audio |-> audio, error |-> NoError]
Raised(error) == [kind |-> "error", audio |-> NoneAudio, error |-> error]

\* an HTTP response
NoResponse == [status |-> 0, body |-> ""]
ErrorResponse(status, msg) == [status |-> status, body |-> msg]

\* a call the handler made, as the called side sees it
Event(op, stage, arg, outcome, audio) ==
    [op |-> op, stage |-> stage, arg |-> arg, outcome |-> outcome, audio |-> audio]

(***************************************************************************)
(* JSON request bodies.                                                    *)
(***************************************************************************)
Absent == [kind |-> "absent"]
Null == [kind |-> "null"]
Str(chars) == [kind |-> "str", chars |-> chars]
Num(h) == [kind |-> "num", h |-> h]
NaNLiteral == [kind |-> "nan"]

Rep(c, n) == [i \in 1..n |-> c]

\* "Hi."
TextHi == <<"H", "i", ".">>
\* "café."
TextCafe == <<"c", "a", "f", "E_ACUTE", ".">>
\* two CJK characters
TextCjk == <<"CJK", "CJK">>
\* one word of exactly MAX_TEXT_LEN characters
TextMax == Rep("a", MAX_TEXT_LEN)
\* MAX_TEXT_LEN characters between surrounding whitespace
TextMaxPadded == <<" ">> \o Rep("a", MAX_TEXT_LEN) \o <<"\n", " ">>
\* one character more than MAX_TEXT_LEN
TextTooLong == Rep("a", MAX_TEXT_LEN + 1)
\* two sentences of 100 characters each
TextTwoSentences == Rep("a", 99) \o <<".", " ">> \o Rep("b", 99) \o <<".">>
\* a short sentence, a sentence of two 100-character words, a short sentence
TextShortLongShort ==
    <<"H", "i", ".", " ">> \o Rep("a", 100) \o <<" ">> \o Rep("b", 99) \o <<".", " ", "O", "k", ".">>

TextValues ==
    {Absent, Null, Str(<< >>), Str(<<" ", "\t">>), Str(TextHi), Str(TextCafe), Str(TextCjk),
     Str(TextMax), Str(TextMaxPadded), Str(TextTooLong), Str(TextTwoSentences),
     Str(TextShortLongShort)}

VoiceValues == {Absent, Null, Str("Jasper"), Str("Bella"), Str("Leo"), Str("Nobody")}

\* speeds 0.49, 0.5, 1.0, 2.0, 2.01, 3.0; the strings "1.5", "fast", "nan"
SpeedValues ==
    {Absent, Null, Num(49), Num(50), Num(100), Num(200), Num(201), Num(300),
     Str("1.5"), Str("fast"), Str("nan"), NaNLiteral}

\* request.get_json(silent=True): None for a body that is no JSON, else the value
NotJson == [kind |-> "none"]
JsonList == [kind |-> "list"]
JsonObject(t, v, s) == [kind |-> "dict", text |-> t, voice |-> v, speed |-> s]

Bodies ==
    {NotJson, JsonList}
      \cup {JsonObject(t, v, s) : t \in TextValues, v \in VoiceValues, s \in SpeedValues}

\* the bodies the threads of the concurrent specification send
FewBodies ==
    {NotJson, JsonObject(Str(TextHi), Absent, Absent), JsonObject(Str(TextCafe), Absent, Absent),
     JsonObject(Str(TextCjk), Absent, Absent)}

(***************************************************************************)
(* Request parsing and validation, lines 148-169 and 198-219.              *)
(***************************************************************************)
\* float(x), lines 155 and 205: the value, or the exception raised
PyFloat(v) ==
    CASE v.kind = "num" -> [ok |-> TRUE, value |-> Float(v.h)]
      [] v.kind = "nan" -> [ok |-> TRUE, value |-> NaN]
      [] v.kind = "str" /\ v.chars = "1.5" -> [ok |-> TRUE, value |-> Float(150)]
      [] v.kind = "str" /\ v.chars = "nan" -> [ok |-> TRUE, value |-> NaN]
      [] OTHER -> [ok |-> FALSE, value |-> NaN]

\* data.get(key, default)
GetOr(v, default) == IF v.kind = "absent" THEN default ELSE v

\* lines 168 and 218
SpeedOutOfRange(speed) == FloatLess(speed, Float(50)) \/ FloatGreater(speed, Float(200))

Rejected(status, msg) ==
    [ok |-> FALSE, response |-> ErrorResponse(status, msg),
     text |-> << >>, voice |-> "", speed |-> NaN]

Accepted(t, v, s) ==
    [ok |-> TRUE, response |-> NoResponse, text |-> t, voice |-> v, speed |-> s]

\* the checks of a handler up to the call of get_model
Validate(data) ==
    IF data.kind # "dict" THEN Rejected(400, "Invalid JSON payload")
    ELSE LET rawText  == GetOr(data.text, Str(<< >>))
             rawVoice == GetOr(data.voice, Str("Jasper"))
             rawSpeed == GetOr(data.speed, Num(100))
             parsed   == PyFloat(rawSpeed)
         IN IF rawText.kind # "str"
            THEN Rejected(500, "expected string or bytes-like object")
            ELSE LET t == normalize_input_text(rawText.chars)
                 IN IF ~parsed.ok THEN Rejected(400, "Speed must be a number")
                    ELSE IF t = << >> THEN Rejected(400, "Text is required")
                    ELSE IF Len(t) > MAX_TEXT_LEN
                    THEN Rejected(400, "Text is too long (max 1000 characters)")
                    ELSE IF rawVoice.kind # "str" \/ rawVoice.chars \notin AVAILABLE_VOICES
                    THEN Rejected(400, "Invalid voice")
                    ELSE IF SpeedOutOfRange(parsed.value)
                    THEN Rejected(400, "Speed must be between 0.5 and 2.0")
                    ELSE Accepted(t, rawVoice.chars, parsed.value)

(***************************************************************************)
(* State.                                                                  *)
(***************************************************************************)
VARIABLES
    fn_pc,          \* position of the function harness
    fn_text,        \* the text given to the function under check
    fn_max_len,     \* the max_len given to _split_safe_chunks
    fn_out,         \* what the function returned
    fn_out2,        \* what it returned when applied to its own result
    tts,            \* the global model handle, 0 for None
    constructions,  \* how many KittenTTS objects were constructed
    pc,             \* per thread: position in the handler
    request,        \* per thread: the endpoint and body being handled
    text,           \* per thread: the handler's normalized text
    voice,          \* per thread: the handler's voice
    speed,          \* per thread: the handler's speed
    model,          \* per thread: what get_model returned, 0 before
    first_error,    \* per thread: the direct call's exception, 0 for none
    sanitized,      \* per thread: _synthesize_audio_safe's sanitized text
    chunks,         \* per thread: the chunks being iterated
    next_chunk,     \* per thread: index of the next chunk of the loop
    chunk_audios,   \* per thread: the audios collected by the loop
    result,         \* per thread: what _synthesize_audio_safe ended with
    response,       \* per thread: the HTTP response
    trace           \* per thread: the calls made for the request, in order

fn_vars == <<fn_pc, fn_text, fn_max_len, fn_out, fn_out2>>

global_vars == <<tts, constructions>>

handler_vars == <<request, text, voice, speed, model>>

synth_vars == <<first_error, sanitized, chunks, next_chunk, chunk_audios, result>>

server_vars == <<global_vars, pc, handler_vars, synth_vars, response, trace>>

vars == <<fn_vars, server_vars>>

InitFn ==
    /\ fn_pc = "unused"
    /\ fn_text = << >>
    /\ fn_max_len = 0
    /\ fn_out = << >>
    /\ fn_out2 = << >>

NoRequest == [endpoint |-> "", body |-> NotJson]

InitServer ==
    /\ tts = 0
    /\ constructions = 0
    /\ pc = [t \in Threads |-> "idle"]
    /\ request = [t \in Threads |-> NoRequest]
    /\ text = [t \in Threads |-> << >>]
    /\ voice = [t \in Threads |-> ""]
    /\ speed = [t \in Threads |-> NaN]
    /\ model = [t \in Threads |-> 0]
    /\ first_error = [t \in Threads |-> 0]
    /\ sanitized = [t \in Threads |-> << >>]
    /\ chunks = [t \in Threads |-> << >>]
    /\ next_chunk = [t \in Threads |-> 0]
    /\ chunk_audios = [t \in Threads |-> << >>]
    /\ result = [t \in Threads |-> NoResult]
    /\ response = [t \in Threads |-> NoResponse]
    /\ trace = [t \in Threads |-> << >>]

(***************************************************************************)
(* The text functions applied to enumerated inputs.                        *)
(***************************************************************************)
TextsOver(alphabet, n) == UNION {[1..k -> alphabet] : k \in 0..n}

SplitAlphabet == {"a", "b", ".", " "}

\* the 200-character input of the chunking scenario
ScenarioText == Rep("A", 200)

SanitizeAlphabet ==
    {"a", ".", " ", "\n", "#", "E_ACUTE", "CJK", "FI_LIGATURE", "NBSP", "FULLWIDTH_PERCENT"}

InitSplit ==
    /\ fn_pc = "call"
    /\ \/ /\ fn_text \in TextsOver(SplitAlphabet, MaxTextLen)
          /\ fn_max_len \in 1..MaxChunkLen
       \/ /\ fn_text = ScenarioText
          /\ fn_max_len = SAFE_CHUNK_LEN
    /\ fn_out = << >>
    /\ fn_out2 = << >>
    /\ InitServer

CallSplit ==
    /\ fn_pc = "call"
    /\ fn_out' = split_safe_chunks(fn_text, fn_max_len)
    /\ fn_pc' = "returned"
    /\ UNCHANGED <<fn_text, fn_max_len, fn_out2, server_vars>>

NextSplit == CallSplit

SpecSplit == InitSplit /\ [][NextSplit]_vars

InitSanitize ==
    /\ fn_pc = "call"
    /\ fn_text \in TextsOver(SanitizeAlphabet, MaxSanLen)
    /\ fn_max_len = 0
    /\ fn_out = << >>
    /\ fn_out2 = << >>
    /\ InitServer

CallSanitize ==
    /\ fn_pc = "call"
    /\ fn_out' = sanitize_text_for_model(fn_text)
    /\ fn_pc' = "returned"
    /\ UNCHANGED <<fn_text, fn_max_len, fn_out2, server_vars>>

CallSanitizeAgain ==
    /\ fn_pc = "returned"
    /\ fn_out2' = sanitize_text_for_model(fn_out)
    /\ fn_pc' = "returned_twice"
    /\ UNCHANGED <<fn_text, fn_max_len, fn_out, server_vars>>

NextSanitize == CallSanitize \/ CallSanitizeAgain

SpecSanitize == InitSanitize /\ [][NextSanitize]_vars

(***************************************************************************)
(* The request handlers, lines 144-244.                                    *)
(***************************************************************************)
Record(t, event) == trace' = [trace EXCEPT ![t] = Append(@, event)]

Call(op) == Event(op, "", << >>, "", NoneAudio)

\* lines 147-169 / 197-219: the body is parsed and validated
Begin(t, endpoint, body) ==
    LET v == Validate(body)
    IN /\ request' = [request EXCEPT ![t] = [endpoint |-> endpoint, body |-> body]]
       /\ text' = [text EXCEPT ![t] = v.text]
       /\ voice' = [voice EXCEPT ![t] = v.voice]
       /\ speed' = [speed EXCEPT ![t] = v.speed]
       /\ response' = [response EXCEPT ![t] = v.response]
       /\ pc' = [pc EXCEPT ![t] = IF v.ok THEN "get_model" ELSE "done"]
       /\ UNCHANGED <<fn_vars, global_vars, model, synth_vars, trace>>

\* POST /api/generate arrives
generate_audio(t, bodies) ==
    /\ pc[t] = "idle"
    /\ \E body \in bodies : Begin(t, "/api/generate", body)

\* POST /api/generate-stream arrives
generate_audio_stream(t, bodies) ==
    /\ pc[t] = "idle"
    /\ \E body \in bodies : Begin(t, "/api/generate-stream", body)

(***************************************************************************)
(* get_model, lines 121-129.                                               *)
(***************************************************************************)
\* line 124: the test of the global
get_model_test(t) ==
    /\ pc[t] = "get_model"
    /\ pc' = [pc EXCEPT ![t] = IF tts = 0 THEN "load" ELSE "get_model_return"]
    /\ Record(t, Call("get_model"))
    /\ UNCHANGED <<fn_vars, global_vars, handler_vars, synth_vars, response>>

\* lines 125-128: the model is constructed and assigned to the global
get_model_load(t) ==
    /\ pc[t] = "load"
    /\ constructions' = constructions + 1
    /\ tts' = constructions + 1
    /\ pc' = [pc EXCEPT ![t] = "get_model_return"]
    /\ UNCHANGED <<fn_vars, handler_vars, synth_vars, response, trace>>

\* line 128 raises: the handler's except clause answers
get_model_load_fails(t) ==
    /\ pc[t] = "load"
    /\ response' = [response EXCEPT ![t] = ErrorResponse(500, "model could not be loaded")]
    /\ pc' = [pc EXCEPT ![t] = "done"]
    /\ UNCHANGED <<fn_vars, global_vars, handler_vars, synth_vars, trace>>

\* line 129
get_model_return(t) ==
    /\ pc[t] = "get_model_return"
    /\ model' = [model EXCEPT ![t] = tts]
    /\ pc' = [pc EXCEPT ![t] = "direct"]
    /\ UNCHANGED <<fn_vars, global_vars, request, text, voice, speed, synth_vars, response, trace>>

(***************************************************************************)
(* _synthesize_audio_safe, lines 90-118.                                   *)
(***************************************************************************)
\* what one call of model.generate may do
Outcomes == {"raise", "array", "empty", "none"}

\* number of model.generate calls a request has made
Generated(events) == Len(SelectSeq(events, LAMBDA e : e.op = "generate"))

\* the value call number n returns: its samples name the call
GenerateValue(outcome, n) ==
    CASE outcome = "array" -> Array(<<n>>)
      [] outcome = "empty" -> Array(<< >>)
      [] OTHER             -> NoneAudio

\* line 108
IsUsable(audio) == ~audio.isNone /\ Len(audio.samples) > 0

\* line 114: np.concatenate
RECURSIVE Concatenate(_)
Concatenate(audios) ==
    IF audios = << >> THEN Array(<< >>)
    ELSE Array(Head(audios).samples \o Concatenate(Tail(audios)).samples)

\* lines 91-93
synth_direct(t) ==
    /\ pc[t] = "direct"
    /\ \E outcome \in Outcomes :
          LET n     == Generated(trace[t]) + 1
              audio == GenerateValue(outcome, n)
          IN /\ Record(t, Event("generate", "direct", text[t], outcome, audio))
             /\ IF outcome = "raise"
                THEN /\ first_error' = [first_error EXCEPT ![t] = n]
                     /\ pc' = [pc EXCEPT ![t] = "sanitize"]
                     /\ UNCHANGED result
                ELSE /\ result' = [result EXCEPT ![t] = Returned(audio)]
                     /\ pc' = [pc EXCEPT ![t] = "encode"]
                     /\ UNCHANGED first_error
    /\ UNCHANGED <<fn_vars, global_vars, handler_vars, sanitized, chunks, next_chunk,
                   chunk_audios, response>>

\* synth_sanitize without the test of line 95
synth_sanitize_NoEmptyCheck(t) ==
    /\ pc[t] = "sanitize"
    /\ LET s == sanitize_text_for_model(text[t])
       IN /\ sanitized' = [sanitized EXCEPT ![t] = s]
          /\ pc' = [pc EXCEPT ![t] = IF s # text[t] THEN "retry" ELSE "split"]
          /\ UNCHANGED result
    /\ Record(t, Call("sanitize"))
    /\ UNCHANGED <<fn_vars, global_vars, handler_vars, first_error, chunks, next_chunk,
                   chunk_audios, response>>

\* lines 94-98
synth_sanitize(t) ==
    /\ pc[t] = "sanitize"
    /\ LET s == sanitize_text_for_model(text[t])
       IN /\ sanitized' = [sanitized EXCEPT ![t] = s]
          /\ IF s = << >>
             THEN /\ result' = [result EXCEPT ![t] =
                                   Raised(ValueError(UnsupportedMsg, first_error[t]))]
                  /\ pc' = [pc EXCEPT ![t] = "encode"]
             ELSE /\ pc' = [pc EXCEPT ![t] = IF s # text[t] THEN "retry" ELSE "split"]
                  /\ UNCHANGED result
    /\ Record(t, Call("sanitize"))
    /\ UNCHANGED <<fn_vars, global_vars, handler_vars, first_error, chunks, next_chunk,
                   chunk_audios, response>>

\* synth_retry without the return of line 100
synth_retry_FallsThrough(t) ==
    /\ pc[t] = "retry"
    /\ \E outcome \in Outcomes :
          LET n     == Generated(trace[t]) + 1
              audio == GenerateValue(outcome, n)
          IN Record(t, Event("generate", "retry", sanitized[t], outcome, audio))
    /\ pc' = [pc EXCEPT ![t] = "split"]
    /\ UNCHANGED <<fn_vars, global_vars, handler_vars, first_error, sanitized, chunks,
                   next_chunk, chunk_audios, result, response>>

\* lines 99-102
synth_retry(t) ==
    /\ pc[t] = "retry"
    /\ \E outcome \in Outcomes :
          LET n     == Generated(trace[t]) + 1
              audio == GenerateValue(outcome, n)
          IN /\ Record(t, Event("generate", "retry", sanitized[t], outcome, audio))
             /\ IF outcome = "raise"
                THEN /\ pc' = [pc EXCEPT ![t] = "split"]
                     /\ UNCHANGED result
                ELSE /\ result' = [result EXCEPT ![t] = Returned(audio)]
                     /\ pc' = [pc EXCEPT ![t] = "encode"]
    /\ UNCHANGED <<fn_vars, global_vars, handler_vars, first_error, sanitized, chunks,
                   next_chunk, chunk_audios, response>>

\* lines 104-105: the chunks are computed and the loop starts
synth_split(t) ==
    /\ pc[t] = "split"
    /\ chunks' = [chunks EXCEPT ![t] = split_safe_chunks(sanitized[t], SAFE_CHUNK_LEN)]
    /\ next_chunk' = [next_chunk EXCEPT ![t] = 1]
    /\ chunk_audios' = [chunk_audios EXCEPT ![t] = << >>]
    /\ pc' = [pc EXCEPT ![t] = "chunk"]
    /\ Record(t, Call("split"))
    /\ UNCHANGED <<fn_vars, global_vars, handler_vars, first_error, sanitized, result, response>>

\* synth_chunk with `break` for the `continue` of line 111
synth_chunk_AbortsOnFailure(t) ==
    /\ pc[t] = "chunk"
    /\ next_chunk[t] <= Len(chunks[t])
    /\ \E outcome \in Outcomes :
          LET n     == Generated(trace[t]) + 1
              audio == GenerateValue(outcome, n)
          IN /\ Record(t, Event("generate", "chunk", chunks[t][next_chunk[t]], outcome, audio))
             /\ chunk_audios' = [chunk_audios EXCEPT ![t] =
                                    IF outcome # "raise" /\ IsUsable(audio)
                                    THEN Append(@, audio) ELSE @]
             /\ next_chunk' = [next_chunk EXCEPT ![t] =
                                  IF outcome = "raise" THEN Len(chunks[t]) + 1 ELSE @ + 1]
    /\ UNCHANGED <<fn_vars, global_vars, handler_vars, pc, first_error, sanitized, chunks,
                   result, response>>

\* lines 105-111: one iteration of the loop
synth_chunk(t) ==
    /\ pc[t] = "chunk"
    /\ next_chunk[t] <= Len(chunks[t])
    /\ \E outcome \in Outcomes :
          LET n     == Generated(trace[t]) + 1
              audio == GenerateValue(outcome, n)
          IN /\ Record(t, Event("generate", "chunk", chunks[t][next_chunk[t]], outcome, audio))
             /\ chunk_audios' = [chunk_audios EXCEPT ![t] =
                                    IF outcome # "raise" /\ IsUsable(audio)
                                    THEN Append(@, audio) ELSE @]
    /\ next_chunk' = [next_chunk EXCEPT ![t] = @ + 1]
    /\ UNCHANGED <<fn_vars, global_vars, handler_vars, pc, first_error, sanitized, chunks,
                   result, response>>

\* synth_finish returning an empty array where lines 116-118 raise
synth_finish_ReturnsEmpty(t) ==
    /\ pc[t] = "chunk"
    /\ next_chunk[t] > Len(chunks[t])
    /\ result' = [result EXCEPT ![t] = Returned(Concatenate(chunk_audios[t]))]
    /\ pc' = [pc EXCEPT ![t] = "encode"]
    /\ UNCHANGED <<fn_vars, global_vars, handler_vars, first_error, sanitized, chunks,
                   next_chunk, chunk_audios, response, trace>>

\* lines 113-118: after the loop
synth_finish(t) ==
    /\ pc[t] = "chunk"
    /\ next_chunk[t] > Len(chunks[t])
    /\ result' = [result EXCEPT ![t] =
                     IF chunk_audios[t] # << >>
                     THEN Returned(Concatenate(chunk_audios[t]))
                     ELSE Raised(ValueError(CouldNotMsg, first_error[t]))]
    /\ pc' = [pc EXCEPT ![t] = "encode"]
    /\ UNCHANGED <<fn_vars, global_vars, handler_vars, first_error, sanitized, chunks,
                   next_chunk, chunk_audios, response, trace>>

(***************************************************************************)
(* The end of a handler, lines 176-191 and 226-244.                        *)
(***************************************************************************)
Answer(t, r) ==
    /\ response' = [response EXCEPT ![t] = r]
    /\ pc' = [pc EXCEPT ![t] = "done"]
    /\ UNCHANGED <<fn_vars, global_vars, handler_vars, synth_vars, trace>>

\* lines 189-191 / 242-244: _synthesize_audio_safe raised
handler_except(t) ==
    /\ pc[t] = "encode"
    /\ result[t].kind = "error"
    /\ Answer(t, ErrorResponse(500, result[t].error.msg))

\* lines 177-178 / 227-228: sf.write raises on what it is given
write_fails(t) ==
    /\ pc[t] = "encode"
    /\ result[t].kind = "audio"
    /\ Answer(t, ErrorResponse(500, "audio could not be written"))

\* lines 176-187
send_file(t) ==
    /\ pc[t] = "encode"
    /\ result[t].kind = "audio"
    /\ ~result[t].audio.isNone
    /\ request[t].endpoint = "/api/generate"
    /\ Answer(t, [status |-> 200, body |-> "audio/wav"])

\* lines 226-240
send_base64(t) ==
    /\ pc[t] = "encode"
    /\ result[t].kind = "audio"
    /\ ~result[t].audio.isNone
    /\ request[t].endpoint = "/api/generate-stream"
    /\ Answer(t, [status |-> 200, body |-> "data:audio/wav;base64"])

(***************************************************************************)
(* Specifications.                                                         *)
(***************************************************************************)
\* the handler has returned: its locals are gone and the thread is free
handler_returns(t) ==
    /\ pc[t] = "done"
    /\ pc' = [pc EXCEPT ![t] = "idle"]
    /\ request' = [request EXCEPT ![t] = NoRequest]
    /\ text' = [text EXCEPT ![t] = << >>]
    /\ voice' = [voice EXCEPT ![t] = ""]
    /\ speed' = [speed EXCEPT ![t] = NaN]
    /\ model' = [model EXCEPT ![t] = 0]
    /\ first_error' = [first_error EXCEPT ![t] = 0]
    /\ sanitized' = [sanitized EXCEPT ![t] = << >>]
    /\ chunks' = [chunks EXCEPT ![t] = << >>]
    /\ next_chunk' = [next_chunk EXCEPT ![t] = 0]
    /\ chunk_audios' = [chunk_audios EXCEPT ![t] = << >>]
    /\ result' = [result EXCEPT ![t] = NoResult]
    /\ response' = [response EXCEPT ![t] = NoResponse]
    /\ trace' = [trace EXCEPT ![t] = << >>]
    /\ UNCHANGED <<fn_vars, global_vars>>

HandlerStep(t, bodies) ==
    \/ generate_audio(t, bodies)
    \/ generate_audio_stream(t, bodies)
    \/ get_model_test(t)
    \/ get_model_load(t)
    \/ get_model_load_fails(t)
    \/ get_model_return(t)
    \/ synth_direct(t)
    \/ synth_sanitize(t)
    \/ synth_retry(t)
    \/ synth_split(t)
    \/ synth_chunk(t)
    \/ synth_finish(t)
    \/ handler_except(t)
    \/ write_fails(t)
    \/ send_file(t)
    \/ send_base64(t)
    \/ handler_returns(t)

\* one handler at a time, every request body of the model
Next == HandlerStep(1, Bodies)

Init ==
    /\ InitFn
    /\ InitServer

Spec == Init /\ [][Next]_vars

\* the handlers of all threads interleaved
NextThreads == \E t \in Threads : HandlerStep(t, FewBodies)

SpecThreads == Init /\ [][NextThreads]_vars

(***************************************************************************)
(* Properties of _split_safe_chunks (under SpecSplit).                     *)
(***************************************************************************)
\* the parts joined by single spaces
RECURSIVE JoinSpace(_)
JoinSpace(parts) ==
    IF parts = << >> THEN << >>
    ELSE IF Len(parts) = 1 THEN parts[1]
    ELSE parts[1] \o <<" ">> \o JoinSpace(Tail(parts))

\* C1: joining the returned chunks with a single space yields exactly the
\* whitespace-separated words of the text, in their original order.
C1_WordsKeptInOrder ==
    fn_pc = "returned" => SplitWords(JoinSpace(fn_out)) = SplitWords(fn_text)

IsSingleWord(chunk) == \A i \in 1..Len(chunk) : ~IsSpace(chunk[i])

\* C2: every returned chunk is at most max_len long, unless it is a single
\* whitespace-free word that is itself longer than max_len.
C2_ChunksWithinMaxLen ==
    fn_pc = "returned" =>
        \A k \in 1..Len(fn_out) :
            Len(fn_out[k]) <= fn_max_len \/ IsSingleWord(fn_out[k])

\* a text longer than max_len gave a chunk of exactly max_len characters and
\* a chunk that is one word longer than max_len
C2_Witness ==
    /\ fn_pc = "returned"
    /\ Len(fn_text) > fn_max_len
    /\ Len(fn_text) <= MaxTextLen
    /\ \E k \in 1..Len(fn_out) : Len(fn_out[k]) = fn_max_len
    /\ \E k \in 1..Len(fn_out) : IsSingleWord(fn_out[k]) /\ Len(fn_out[k]) > fn_max_len

IsScenario == fn_pc = "returned" /\ fn_text = ScenarioText /\ fn_max_len = SAFE_CHUNK_LEN

\* C3 as stated: 200 identical letters with max_len = 180 give two chunks,
\* of 180 and of 20 characters.
C3_ScenarioTwoChunks ==
    IsScenario => Len(fn_out) = 2 /\ Len(fn_out[1]) = 180 /\ Len(fn_out[2]) = 20

\* C3 as amended: 200 identical letters with max_len = 180 give exactly one
\* chunk, the whole 200-character word.
C3_ScenarioOneChunk == IsScenario => fn_out = <<ScenarioText>>

C3_Witness == IsScenario /\ Len(fn_out) = 1 /\ Len(fn_out[1]) = 200

(***************************************************************************)
(* Properties of _sanitize_text_for_model (under SpecSanitize).            *)
(***************************************************************************)
IsClean(s) ==
    /\ \A i \in 1..Len(s) : s[i] \in AllowedChars
    /\ s # << >> => s[1] # " " /\ s[Len(s)] # " "
    /\ \A i \in 1..(Len(s) - 1) : ~(s[i] = " " /\ s[i+1] = " ")

\* C9: sanitizing a sanitized text changes nothing, and a sanitized text has
\* only allowed characters, no leading, trailing or repeated space.
C9_SanitizeIdempotent ==
    /\ fn_pc \in {"returned", "returned_twice"} => IsClean(fn_out)
    /\ fn_pc = "returned_twice" => fn_out2 = fn_out

\* a text that sanitizing changed into words separated by a space
C9_Witness ==
    /\ fn_pc = "returned_twice"
    /\ fn_out # fn_text
    /\ \E i \in 1..Len(fn_out) : fn_out[i] = " "
    /\ \E i \in 1..Len(fn_text) : fn_text[i] \notin AsciiChars

(***************************************************************************)
(* Properties of _synthesize_audio_safe (under Spec).                      *)
(***************************************************************************)
\* the model.generate calls of thread t's request, in order
GenerateCalls(t) == SelectSeq(trace[t], LAMBDA e : e.op = "generate")

\* the per-chunk calls among them
ChunkCalls(t) == SelectSeq(trace[t], LAMBDA e : e.op = "generate" /\ e.stage = "chunk")

Called(t, op) == \E i \in 1..Len(trace[t]) : trace[t][i].op = op

DirectFailed(t) == GenerateCalls(t) # << >> /\ GenerateCalls(t)[1].outcome = "raise"

SynthEnded(t) == pc[t] \in {"encode", "done"} /\ result[t].kind # "none"

\* C4: a successful direct call ends the function with its audio, without
\* sanitization or another call; a successful sanitized retry ends it with
\* its audio, without chunking or a per-chunk call.
C4_TerminalOnFirstSuccess ==
    \A t \in Threads :
        LET g == GenerateCalls(t)
        IN /\ (g # << >> /\ g[1].outcome # "raise") =>
                  /\ Len(g) = 1
                  /\ g[1].arg = text[t]
                  /\ ~Called(t, "sanitize") /\ ~Called(t, "split")
                  /\ SynthEnded(t)
                  /\ result[t] = Returned(g[1].audio)
           /\ (/\ DirectFailed(t)
               /\ sanitize_text_for_model(text[t]) # text[t]
               /\ Len(g) >= 2
               /\ g[2].outcome # "raise") =>
                  /\ Len(g) = 2
                  /\ g[2].arg = sanitize_text_for_model(text[t])
                  /\ ~Called(t, "split")
                  /\ ChunkCalls(t) = << >>
                  /\ SynthEnded(t)
                  /\ result[t] = Returned(g[2].audio)

\* the direct call failed, the retry on the differing sanitized text
\* returned an array, and the request was answered with it
C4_Witness ==
    /\ pc[1] = "done"
    /\ DirectFailed(1)
    /\ sanitized[1] # text[1]
    /\ Len(GenerateCalls(1)) = 2
    /\ GenerateCalls(1)[2].outcome = "array"
    /\ response[1].status = 200

\* C5: when the direct call fails and the sanitized text is empty, the
\* function ends with the unsupported-characters error caused by the direct
\* call's failure, after exactly one model call.
C5_EmptySanitizedFailsAtOnce ==
    \A t \in Threads :
        (/\ DirectFailed(t)
         /\ Called(t, "sanitize")
         /\ sanitize_text_for_model(text[t]) = << >>) =>
            /\ Len(GenerateCalls(t)) = 1
            /\ ~Called(t, "split")
            /\ SynthEnded(t)
            /\ result[t] = Raised(ValueError(UnsupportedMsg, 1))

C5_Witness ==
    /\ pc[1] = "done"
    /\ DirectFailed(1)
    /\ Called(1, "sanitize")
    /\ text[1] # << >>
    /\ sanitized[1] = << >>
    /\ response[1] = ErrorResponse(500, UnsupportedMsg)

\* the samples of the calls that returned a non-empty array, in call order
RECURSIVE UsableSamples(_)
UsableSamples(calls) ==
    IF calls = << >> THEN << >>
    ELSE (IF Head(calls).outcome = "array" THEN Head(calls).audio.samples ELSE << >>)
             \o UsableSamples(Tail(calls))

\* C6: in the chunked stage every chunk of the sanitized text is attempted
\* exactly once, in chunk order, whatever the earlier outcomes; when some
\* attempt returned a non-empty array, the result is the concatenation, in
\* chunk order, of exactly the non-empty arrays.
C6_ChunksAllTriedAndConcatenated ==
    \A t \in Threads :
        Called(t, "split") =>
            LET expected == split_safe_chunks(sanitize_text_for_model(text[t]), SAFE_CHUNK_LEN)
                tried    == ChunkCalls(t)
            IN /\ Len(tried) <= Len(expected)
               /\ \A i \in 1..Len(tried) : tried[i].arg = expected[i]
               /\ pc[t] \in {"encode", "done"} => Len(tried) = Len(expected)
               /\ (/\ pc[t] \in {"encode", "done"}
                   /\ \E i \in 1..Len(tried) : tried[i].outcome = "array") =>
                      result[t] = Returned(Array(UsableSamples(tried)))

\* three chunks: the first and the third gave audio, the second failed
C6_Witness ==
    /\ pc[1] = "done"
    /\ Len(ChunkCalls(1)) = 3
    /\ ChunkCalls(1)[1].outcome = "array"
    /\ ChunkCalls(1)[2].outcome = "raise"
    /\ ChunkCalls(1)[3].outcome = "array"
    /\ Len(result[1].audio.samples) = 2
    /\ response[1].status = 200

\* C7: the function ends with the could-not-synthesize error, caused by the
\* direct call's failure, exactly when the direct call failed, the sanitized
\* text is not empty, the retry (if made) failed and no chunk attempt gave a
\* non-empty array; otherwise it ends with audio or the unsupported error.
C7_CouldNotSynthesizeIff ==
    \A t \in Threads :
        SynthEnded(t) =>
            LET g       == GenerateCalls(t)
                allFail == /\ DirectFailed(t)
                           /\ sanitize_text_for_model(text[t]) # << >>
                           /\ \A i \in 1..Len(g) :
                                 /\ g[i].stage = "retry" => g[i].outcome = "raise"
                                 /\ g[i].stage = "chunk" => g[i].outcome # "array"
            IN /\ result[t] = Raised(ValueError(CouldNotMsg, 1)) <=> allFail
               /\ ~allFail => \/ result[t].kind = "audio"
                              \/ result[t] = Raised(ValueError(UnsupportedMsg, 1))

\* the direct call and the retry failed and the only chunk gave nothing
C7_Witness ==
    /\ pc[1] = "done"
    /\ Len(GenerateCalls(1)) = 3
    /\ GenerateCalls(1)[2].stage = "retry"
    /\ GenerateCalls(1)[3].outcome = "empty"
    /\ response[1] = ErrorResponse(500, CouldNotMsg)

(***************************************************************************)
(* Properties of the endpoints (under Spec).                               *)
(***************************************************************************)
\* the body is a JSON object, its normalized text is non-empty and at most
\* 1000 characters, its voice is available, its speed a number in [0.5, 2.0]
MeetsTheRules(body) ==
    /\ body.kind = "dict"
    /\ LET t == GetOr(body.text, Str(<< >>))
       IN /\ t.kind = "str"
          /\ normalize_input_text(t.chars) # << >>
          /\ Len(normalize_input_text(t.chars)) <= 1000
    /\ LET v == GetOr(body.voice, Str("Jasper"))
       IN v.kind = "str" /\ v.chars \in AVAILABLE_VOICES
    /\ LET s == PyFloat(GetOr(body.speed, Num(100)))
       IN s.ok /\ ~s.value.nan /\ 50 <= s.value.h /\ s.value.h <= 200

\* C8: on both endpoints the model is loaded and called only for requests
\* that meet the rules; every other request gets an error response without
\* a model load or call.
C8_ModelOnlyForValidRequests ==
    \A t \in Threads :
        /\ trace[t] # << >> => MeetsTheRules(request[t].body)
        /\ (pc[t] = "done" /\ ~MeetsTheRules(request[t].body)) =>
               /\ response[t].status \in {400, 500}
               /\ trace[t] = << >>
               /\ model[t] = 0

(***************************************************************************)
(* Properties of get_model (under SpecThreads).                            *)
(***************************************************************************)
\* C10: however the handlers interleave, the model is constructed at most
\* once and every get_model call returns the same handle.
C10_ModelConstructedOnce ==
    /\ constructions <= 1
    /\ \A t, u \in Threads : (model[t] # 0 /\ model[u] # 0) => model[t] = model[u]

====
